---- MODULE Spec2Model ----
(***************************************************************************)
(* DatasourceSrv (public/app/features/plugins/datasource_srv.ts): the      *)
(* datasource resolver with its lazily filled instance cache.              *)
(*                                                                         *)
(* Strings are sequences of tokens.  A token is one of the characters the  *)
(* code's regular expressions tell apart ("$", "{", "}", ",") or a run of  *)
(* identifier characters that no operation of the code splits ("A",        *)
(* "default", "constructor", ...).  No token is a concatenation of other   *)
(* tokens, so two token sequences are equal exactly when the strings are.  *)
(* The empty sequence is the empty string ''.  As the name argument of get *)
(* and as config.defaultDatasource it also covers undefined, which the     *)
(* code treats as '' there (the test !name of line 25); every other value  *)
(* of the model (a scoped value, the argument of loadDatasource) is a      *)
(* string.                                                                 *)
(***************************************************************************)
EXTENDS Integers, Sequences, FiniteSets, TLC

\* ------------------------------------------------------------------ bounds

\* Number of get / loadDatasource calls issued in one behaviour.
MaxCalls == 2

\* Depth of nested get frames the engine's call stack holds before it throws
\* RangeError (get calls itself for an unset name and for 'default').
StackLimit == 3

\* ----------------------------------------------------------------- strings

Str(tok) == <<tok>>

\* The empty string '': a name that fails the test of line 25.  get() and
\* get(undefined) take the same branch as get('').
Unset == <<>>

DefaultLiteral == Str("default")

\* s[from..] (the empty string when from is past the end)
Drop(s, from) == SubSeq(s, from, Len(s))

\* s[1..upto]
Take(s, upto) == SubSeq(s, 1, upto)

\* beforeName.replace(/\$(.*)+/, '$1'): the first '$' is dropped, the group
\* captures everything after it; a string without '$' is returned unchanged.
StripDollar(s) ==
  IF \E i \in 1..Len(s) : s[i] = "$"
    THEN LET i == CHOOSE k \in 1..Len(s) :
                    s[k] = "$" /\ \A j \in 1..(k - 1) : s[j] # "$"
         IN  Take(s, i - 1) \o Drop(s, i + 1)
    ELSE s

ListStop == {",", "}"}

\* Index of the last token of the run [^,}]+ that starts at position from.
RECURSIVE RunEnd(_, _)
RunEnd(s, from) ==
  IF from < Len(s) /\ s[from + 1] \notin ListStop
    THEN RunEnd(s, from + 1)
    ELSE from

\* A replace that leaves the list as it is.
FirstOfListWhole(s) == s

\* name.replace(/{([^,}]+).*/, '$1'): at the leftmost '{' that is followed by
\* a character other than ',' and '}', everything from the '{' to the end of
\* the string is replaced by the run of characters up to the next ',' or '}'.
FirstOfList(s) ==
  LET starts == { i \in 1..(Len(s) - 1) : s[i] = "{" /\ s[i + 1] \notin ListStop }
  IN  IF starts = {}
        THEN s
        ELSE LET i == CHOOSE k \in starts : \A j \in starts : k <= j
             IN  Take(s, i - 1) \o SubSeq(s, i + 1, RunEnd(s, i + 1))

\* --------------------------------------------------------------- templateSrv

\* templateSrv.variables: the declared variables, in declaration order.
\* current.value is held as the list of selected values (one element for a
\* single-valued variable).
Variables ==
  << [name |-> "v", type |-> "datasource", current |-> << Str("A") >>],
     [name |-> "m", type |-> "datasource", current |-> << Str("A"), Str("B") >>],
     [name |-> "d", type |-> "datasource", current |-> << DefaultLiteral >>],
     [name |-> "q", type |-> "query",      current |-> << Str("B") >>] >>

VariableNames == { Variables[i].name : i \in 1..Len(Variables) }

\* templateSrv.index: variable name -> variable
Index(id) == Variables[CHOOSE i \in 1..Len(Variables) : Variables[i].name = id]

\* a,b,c
RECURSIVE JoinComma(_)
JoinComma(values) ==
  IF Len(values) = 0 THEN <<>>
  ELSE IF Len(values) = 1 THEN values[1]
  ELSE values[1] \o <<",">> \o JoinComma(Tail(values))

\* The text a variable is replaced by: its value, or {a,b,c} when it has
\* several values.
Render(variable) ==
  IF Len(variable.current) = 1
    THEN variable.current[1]
    ELSE <<"{">> \o JoinComma(variable.current) \o <<"}">>

\* templateSrv.replace(text): every $name and ${name} that refers to a
\* declared variable is replaced by the variable's rendering; anything else
\* is copied.
RECURSIVE Replace(_)
Replace(s) ==
  IF Len(s) = 0 THEN <<>>
  ELSE IF /\ Len(s) >= 4
          /\ s[1] = "$" /\ s[2] = "{" /\ s[3] \in VariableNames /\ s[4] = "}"
    THEN Render(Index(s[3])) \o Replace(Drop(s, 5))
  ELSE IF Len(s) >= 2 /\ s[1] = "$" /\ s[2] \in VariableNames
    THEN Render(Index(s[2])) \o Replace(Drop(s, 3))
  ELSE <<s[1]>> \o Replace(Tail(s))

\* -------------------------------------------------------------------- values

\* JavaScript values the service handles, each a record tagged by kind.
Undefined == [kind |-> "undefined"]

\* A member every plain object inherits from Object.prototype.
Inherited(key) == [kind |-> "inherited", key |-> key]

\* Names of members of Object.prototype ('constructor' stands for them all:
\* toString, valueOf, hasOwnProperty, ...).
ObjectPrototypeKeys == { Str("constructor") }

\* obj[key] on a plain object created by {} or parsed from JSON: the own
\* property, else the member inherited from Object.prototype, else undefined.
Lookup(obj, key) ==
  IF key \in DOMAIN obj THEN obj[key]
  ELSE IF key \in ObjectPrototypeKeys THEN Inherited(key)
  ELSE Undefined

Truthy(value) == value.kind # "undefined"

\* -------------------------------------------------------------------- config

Meta(id, builtIn, annotations, metrics) ==
  [id |-> id, module |-> <<"app/plugins", id>>, builtIn |-> builtIn,
   annotations |-> annotations, metrics |-> metrics]

DsConfig(name, meta) == [kind |-> "config", name |-> name, meta |-> meta]

\* config.datasources: resource name -> settings
Datasources ==
  (Str("A") :> DsConfig(Str("A"), Meta("a", FALSE, TRUE, TRUE))) @@
  (Str("B") :> DsConfig(Str("B"), Meta("b", FALSE, FALSE, TRUE)))

\* Values config.defaultDatasource takes in the configurations explored: a
\* configured resource, a name with no settings, and the literal 'default'.
DefaultNames == { Str("A"), Str("Z"), DefaultLiteral }

\* ---------------------------------------------------------------- scopedVars

\* The optional second argument of get: absent, or a mapping from variable
\* name to { value }.
NoScopedVars == [defined |-> FALSE, vars |-> <<>>]

ScopedVars(vars) == [defined |-> TRUE, vars |-> vars]

\* ---------------------------------------------------------------------- get

Thrown(error) == [kind |-> "throw", error |-> error, name |-> Unset]

Resolved(name) == [kind |-> "name", error |-> "", name |-> name]

\* templateSrv.index[newName] && templateSrv.index[newName].type === 'datasource'
ActiveDatasourceVariable(newName) ==
  /\ Len(newName) = 1
  /\ newName[1] \in VariableNames
  /\ Index(newName[1]).type = "datasource"

\* --------------------------------------------------------------------- state

VARIABLES
  defaultDatasource,  \* config.defaultDatasource
  datasources,        \* this.datasources: the own properties of the cache object
  calls,              \* the get / loadDatasource calls issued so far, in order
  imports,            \* the importPluginModule invocations, in order
  instantiations,     \* the $injector.instantiate invocations, in order
  alerts,             \* the events passed to $rootScope.appEvent, in order
  reinitialized,      \* TRUE iff init() was called after construction
  listing             \* the last list query: the config store and variables it
                      \* read, and the list it returned

vars == <<defaultDatasource, datasources, calls, imports, instantiations, alerts,
          reinitialized, listing>>

\* A list query: the own properties of config.datasources in key order (each
\* a record of key and value), templateSrv.variables, the query made and the
\* list it returned.
Listing(store, variables, op, options, result) ==
  [datasources |-> store, variables |-> variables, op |-> op,
   options |-> options, result |-> result]

\* The options argument of getMetricSources: absent, or an object whose
\* skipVariables is true or not.
NoOptions == [defined |-> FALSE, skipVariables |-> FALSE]

Options(skipVariables) == [defined |-> TRUE, skipVariables |-> skipVariables]

\* No list query was made.
NoListing == Listing(<<>>, <<>>, "none", NoOptions, <<>>)

\* What a call returned: a promise that is pending, resolved or rejected, or
\* an exception thrown out of the call.
Promises == {"pending", "resolved", "rejected"}

\* Where the promise chain of a call's importPluginModule invocation stands:
\*   none      the call invoked no loader
\*   loading   the loader's promise is not settled
\*   done      the then-callback (lines 67-85) returned normally
\*   failed    the loader's promise was rejected, or the then-callback threw;
\*             the catch-callback (lines 86-88) has not run yet
\*   alerted   the catch-callback has run
Phases == {"none", "loading", "done", "failed", "alerted"}

Settled(call) == call.state # "pending"

\* err.toString() of the errors the chain can end in
MissingConstructorError == "Error: Plugin module is missing Datasource constructor"
ConstructorError == "Error: constructor failed"
LoaderError == "Error: module failed to load"

\* What the loader's promise can be fulfilled with: a module that exports a
\* Datasource constructor, one whose constructor throws when instantiated,
\* and one that exports no Datasource.
PluginKinds == {"ok", "constructorThrows", "noDatasource"}

Plugin(module, load, kind) == [module |-> module, load |-> load, kind |-> kind]

\* { message: 'Datasource named ' + name + ' was not found' }
NotFound(name) ==
  [kind |-> "notFound",
   message |-> <<"Datasource named ">> \o name \o <<" was not found">>]

\* The record of one call.  op, raw, scopedVars are the call; name is the
\* name get resolved (the argument, for loadDatasource); plugin is what the
\* loader's promise was fulfilled with.  Two fields record the moment of the
\* call: sequential tells that every earlier call had settled, afterFailure
\* that a load of the same name had failed.
Call(op, raw, scopedVars, name, state, value, phase, error) ==
  [op |-> op, raw |-> raw, scopedVars |-> scopedVars, name |-> name,
   state |-> state, value |-> value, phase |-> phase, error |-> error,
   plugin |-> Undefined,
   sequential |-> \A i \in 1..Len(calls) : Settled(calls[i]),
   afterFailure |-> \E i \in 1..Len(calls) :
                      calls[i].name = name /\ calls[i].phase \in {"failed", "alerted"}]

\* init(), run by the constructor (the only caller of init).
Init ==
  /\ defaultDatasource \in DefaultNames
  /\ datasources = <<>>
  /\ calls = <<>>
  /\ imports = <<>>
  /\ instantiations = <<>>
  /\ alerts = <<>>
  /\ reinitialized = FALSE
  /\ listing = NoListing

\* What a call does at once: the record of the call and the loader
\* invocations after it.
Result(call, loaderInvocations) == [call |-> call, imports |-> loaderInvocations]

\* A loader invocation that is skipped while a load of the name is in flight.
ImportPluginModuleOnce(module, name) ==
  IF \E k \in 1..Len(imports) :
       imports[k].name = name /\ calls[imports[k].call].phase = "loading"
    THEN imports
    ELSE Append(imports, [module |-> module, name |-> name, call |-> Len(calls) + 1])

\* importPluginModule(pluginDef.module), line 66, invoked by the call that is
\* being issued for the resource name.
ImportPluginModule(module, name) ==
  Append(imports, [module |-> module, name |-> name, call |-> Len(calls) + 1])

\* loadDatasource(name), lines 57-66 and 90, as called by the caller op with
\* the arguments raw and scopedVars.
LoadDatasource(op, raw, scopedVars, name) ==
  LET dsConfig == Lookup(Datasources, name)
  IN  IF ~Truthy(dsConfig)
        THEN Result(Call(op, raw, scopedVars, name,
                         "rejected", NotFound(name), "none", ""), imports)
      ELSE IF dsConfig.kind # "config"
        \* dsConfig.meta is undefined: pluginDef.module throws TypeError
        THEN Result(Call(op, raw, scopedVars, name,
                         "threw", Undefined, "none", "TypeError"), imports)
      ELSE Result(Call(op, raw, scopedVars, name,
                       "pending", Undefined, "loading", ""),
                  ImportPluginModule(dsConfig.meta.module, name))

\* A get that never finds its name in the cache.
CacheHitNever(name) == FALSE

\* A get that takes a name whose load failed for a cached one.
CacheHitOrFailed(name) ==
  \/ Truthy(Lookup(datasources, name))
  \/ \E i \in 1..Len(calls) :
       calls[i].name = name /\ calls[i].phase \in {"failed", "alerted"}

\* this.datasources[name] as tested on line 50
CacheHit(name) == Truthy(Lookup(datasources, name))

\* A get that does not treat 'default' as the default name.
IsDefaultNameNever(name) == FALSE

\* A test on line 46 that every name passes.
IsDefaultNameAlways(name) == TRUE

\* name === 'default', line 46
IsDefaultName(name) == name = DefaultLiteral

\* A get that does not pass the name through templateSrv.replace.
RECURSIVE ResolveNameUnreplaced(_, _, _)
ResolveNameUnreplaced(name, scopedVars, depth) ==
  IF depth > StackLimit THEN Thrown("RangeError")
  ELSE IF name = Unset \/ IsDefaultName(name)
    THEN ResolveNameUnreplaced(defaultDatasource, NoScopedVars, depth + 1)
  ELSE Resolved(name)

\* Lines 24-48 of get: the name whose cache entry get goes on to look up, or
\* the exception the resolution ends in.  depth counts the get frames on the
\* stack.
RECURSIVE ResolveName(_, _, _)
ResolveName(name, scopedVars, depth) ==
  IF depth > StackLimit THEN Thrown("RangeError")
  ELSE IF name = Unset
    THEN ResolveName(defaultDatasource, NoScopedVars, depth + 1)
  ELSE
    LET beforeName == name
        replaced == Replace(name)
        newName == StripDollar(beforeName)
        scoped == /\ beforeName # replaced
                  /\ scopedVars.defined
                  /\ ActiveDatasourceVariable(newName)
        final == IF beforeName = replaced THEN replaced
                 ELSE IF scoped THEN scopedVars.vars[newName].value
                 ELSE FirstOfList(replaced)
    IN  IF scoped /\ newName \notin DOMAIN scopedVars.vars
          \* scopedVars[newName] is undefined: reading .value throws
          THEN Thrown("TypeError")
        ELSE IF IsDefaultName(final)
          THEN ResolveName(defaultDatasource, NoScopedVars, depth + 1)
        ELSE Resolved(final)

\* get(name, scopedVars), lines 24-55: what the call returns and invokes.
GetResult(raw, scopedVars) ==
  LET resolution == ResolveName(raw, scopedVars, 1)
      name == resolution.name
  IN  IF resolution.kind = "throw"
        THEN Result(Call("get", raw, scopedVars, name,
                         "threw", Undefined, "none", resolution.error), imports)
      ELSE IF CacheHit(name)
        THEN Result(Call("get", raw, scopedVars, name,
                         "resolved", Lookup(datasources, name), "none", ""), imports)
      ELSE LoadDatasource("get", raw, scopedVars, name)

\* A caller calls get(raw, scopedVars).
Get(raw, scopedVars) ==
  /\ Len(calls) < MaxCalls
  /\ calls' = Append(calls, GetResult(raw, scopedVars).call)
  /\ imports' = GetResult(raw, scopedVars).imports
  /\ UNCHANGED <<defaultDatasource, datasources, instantiations, alerts, reinitialized, listing>>

\* A caller calls loadDatasource(name) directly.
LoadDatasourceCall(name) ==
  /\ Len(calls) < MaxCalls
  /\ calls' = Append(calls, LoadDatasource("loadDatasource", name, NoScopedVars, name).call)
  /\ imports' = LoadDatasource("loadDatasource", name, NoScopedVars, name).imports
  /\ UNCHANGED <<defaultDatasource, datasources, instantiations, alerts, reinitialized, listing>>

\* The instance as $injector.instantiate returns it, nothing stamped on it.
InstanceUnstamped(id, name, dsConfig, plugin) ==
  [kind |-> "instance", id |-> id, name |-> Unset, meta |-> Undefined,
   pluginExports |-> Undefined]

\* The instance lines 79-82 build.
Instance(id, name, dsConfig, plugin) ==
  [kind |-> "instance", id |-> id, name |-> name, meta |-> dsConfig.meta,
   pluginExports |-> plugin]

\* A then-callback that does not look at the cache again.
AlreadyCachedNever(name) == FALSE

\* this.datasources[name] as tested on line 69
AlreadyCached(name) == Truthy(Lookup(datasources, name))

\* A then-callback that does not check the module for its constructor.
ExportsDatasourceAlways(plugin) == TRUE

\* plugin.Datasource as tested on line 75
ExportsDatasource(plugin) == plugin.kind # "noDatasource"

\* A then-callback that does not store the instance.
CacheWriteNothing(name, instance) == datasources

\* this.datasources[name] = instance, line 83
CacheWrite(name, instance) == (name :> instance) @@ datasources

\* The loader's promise of call i is fulfilled with a module and the
\* then-callback runs (lines 67-85).
ThenCallback(i, kind) ==
  /\ i \in 1..Len(calls)
  /\ calls[i].phase = "loading"
  /\ LET name == calls[i].name
         dsConfig == Lookup(Datasources, name)
         plugin == Plugin(dsConfig.meta.module, i, kind)
         instance == Instance(Len(instantiations) + 1, name, dsConfig, plugin)
     IN  IF AlreadyCached(name)
           THEN /\ calls' = [calls EXCEPT ![i].state = "resolved",
                                          ![i].value = Lookup(datasources, name),
                                          ![i].phase = "done",
                                          ![i].plugin = plugin]
                /\ UNCHANGED <<datasources, instantiations>>
         ELSE IF ~ExportsDatasource(plugin)
           THEN /\ calls' = [calls EXCEPT ![i].phase = "failed",
                                          ![i].error = MissingConstructorError,
                                          ![i].plugin = plugin]
                /\ UNCHANGED <<datasources, instantiations>>
         ELSE IF kind = "constructorThrows"
           THEN /\ calls' = [calls EXCEPT ![i].phase = "failed",
                                          ![i].error = ConstructorError,
                                          ![i].plugin = plugin]
                /\ instantiations' = Append(instantiations, [name |-> name, call |-> i])
                /\ UNCHANGED datasources
         ELSE /\ instantiations' = Append(instantiations, [name |-> name, call |-> i])
              /\ datasources' = CacheWrite(name, instance)
              /\ calls' = [calls EXCEPT ![i].state = "resolved",
                                        ![i].value = instance,
                                        ![i].phase = "done",
                                        ![i].plugin = plugin]
  /\ UNCHANGED <<defaultDatasource, imports, alerts, reinitialized, listing>>

\* A rejection of the loader's promise that is passed on to the caller.
LoaderRejectsCaller(i) ==
  /\ i \in 1..Len(calls)
  /\ calls[i].phase = "loading"
  /\ calls' = [calls EXCEPT ![i].phase = "failed", ![i].error = LoaderError,
                            ![i].state = "rejected"]
  /\ UNCHANGED <<defaultDatasource, datasources, imports, instantiations, alerts, reinitialized, listing>>

\* The loader's promise of call i is rejected: the then-callback is skipped.
LoaderRejects(i) ==
  /\ i \in 1..Len(calls)
  /\ calls[i].phase = "loading"
  /\ calls' = [calls EXCEPT ![i].phase = "failed", ![i].error = LoaderError]
  /\ UNCHANGED <<defaultDatasource, datasources, imports, instantiations, alerts, reinitialized, listing>>

\* A catch-callback that also rejects the caller's promise.
CatchCallbackRejects(i) ==
  /\ i \in 1..Len(calls)
  /\ calls[i].phase = "failed"
  /\ alerts' = Append(alerts,
                      [type |-> "alert-error",
                       title |-> Lookup(Datasources, calls[i].name).name
                                   \o <<" plugin failed">>,
                       body |-> calls[i].error,
                       call |-> i])
  /\ calls' = [calls EXCEPT ![i].phase = "alerted", ![i].state = "rejected"]
  /\ UNCHANGED <<defaultDatasource, datasources, imports, instantiations, reinitialized, listing>>

\* The catch-callback of call i runs (lines 86-88).
CatchCallback(i) ==
  /\ i \in 1..Len(calls)
  /\ calls[i].phase = "failed"
  /\ alerts' = Append(alerts,
                      [type |-> "alert-error",
                       title |-> Lookup(Datasources, calls[i].name).name
                                   \o <<" plugin failed">>,
                       body |-> calls[i].error,
                       call |-> i])
  /\ calls' = [calls EXCEPT ![i].phase = "alerted"]
  /\ UNCHANGED <<defaultDatasource, datasources, imports, instantiations, reinitialized, listing>>

\* ------------------------------------------------------------------- inputs

ScopedVarsOf(id, value) == ScopedVars(Str(id) :> [value |-> value])

\* A caller calls init() on the constructed service, lines 20-22: the cache
\* is replaced by an empty object.  Promises and loads in flight are not
\* touched.
InitCall ==
  /\ datasources' = <<>>
  /\ reinitialized' = TRUE
  /\ UNCHANGED <<defaultDatasource, calls, imports, instantiations, alerts, listing>>

\* The calls of get explored: get(), get('default'), a configured name, a
\* name without settings, a member name of Object.prototype, a reference to
\* a variable with one value and to one with several values, and a reference
\* to a datasource variable with scopedVars that bind another resource or
\* bind nothing.
GetInputs ==
  { <<Unset, NoScopedVars>>,
    <<DefaultLiteral, NoScopedVars>>,
    <<Str("A"), NoScopedVars>>,
    <<Str("Z"), NoScopedVars>>,
    <<Str("constructor"), NoScopedVars>>,
    << <<"$", "v">>, NoScopedVars >>,
    << <<"$", "m">>, NoScopedVars >>,
    << <<"$", "v">>, ScopedVarsOf("v", Str("B")) >>,
    << <<"$", "v">>, ScopedVars(<<>>) >> }

\* The direct calls of loadDatasource explored.
LoadInputs == { Str("A"), Str("constructor") }

Next ==
  \/ \E input \in GetInputs : Get(input[1], input[2])
  \/ \E name \in LoadInputs : LoadDatasourceCall(name)
  \/ \E i \in 1..Len(calls), kind \in PluginKinds : ThenCallback(i, kind)
  \/ \E i \in 1..Len(calls) : LoaderRejects(i)
  \/ \E i \in 1..Len(calls) : CatchCallback(i)
  \/ InitCall

Spec == Init /\ [][Next]_vars

\* The promise job queue runs every callback that is due: a rejected chain
\* reaches its catch-callback.
LiveSpec == Spec /\ \A i \in 1..MaxCalls : WF_vars(CatchCallback(i))

\* The name resolution of get on its own, over every kind of configured
\* default: plain names, the empty name, 'default' itself and variable
\* references that resolve to a name or to 'default'.
ResolveDefaults ==
  { Str("A"), Str("Z"), DefaultLiteral, Unset,
    <<"$", "v">>, <<"$", "m">>, <<"$", "d">> }

ResolveInputs ==
  { <<Unset, NoScopedVars>>,
    <<DefaultLiteral, NoScopedVars>>,
    <<Str("A"), NoScopedVars>>,
    <<<<"$", "d">>, NoScopedVars>>,
    <<<<"$", "m">>, NoScopedVars>>,
    <<<<"{", "default", ",", "A", "}">>, NoScopedVars>>,
    <<<<"$", "v">>, ScopedVarsOf("v", DefaultLiteral)>>,
    <<<<"$", "v">>, ScopedVarsOf("v", Unset)>> }

ResolveInit ==
  /\ defaultDatasource \in ResolveDefaults
  /\ datasources = <<>>
  /\ calls = <<>>
  /\ imports = <<>>
  /\ instantiations = <<>>
  /\ alerts = <<>>
  /\ reinitialized = FALSE
  /\ listing = NoListing

ResolveNext == \E input \in ResolveInputs : Get(input[1], input[2])

ResolveSpec == ResolveInit /\ [][ResolveNext]_vars

\* -------------------------------------------------------------------- lists

\* Bound on the number of resources in config.datasources
MaxStore == 3

\* The UTF-16 code unit of each character that occurs in a resource name or
\* a variable name of the configurations explored.  U+00FD and U+00FE are
\* String.fromCharCode(253) and String.fromCharCode(254).
CodeUnit ==
  ("$" :> 36) @@ ("-" :> 45) @@
  ("A" :> 65) @@ ("C" :> 67) @@ ("G" :> 71) @@ ("M" :> 77) @@
  ("a" :> 97) @@ ("b" :> 98) @@ ("c" :> 99) @@ ("d" :> 100) @@ ("g" :> 103) @@
  ("m" :> 109) @@ ("p" :> 112) @@ ("q" :> 113) @@ ("u" :> 117) @@ ("v" :> 118) @@
  ("U+00FD" :> 253) @@ ("U+00FE" :> 254) @@ ("U+00FF" :> 255)

\* String.fromCharCode(code)
FromCharCode(code) == << CHOOSE c \in DOMAIN CodeUnit : CodeUnit[c] = code >>

\* The characters toLowerCase changes
LowerCase == ("A" :> "a") @@ ("C" :> "c") @@ ("G" :> "g") @@ ("M" :> "m")

\* s.toLowerCase()
ToLowerCase(s) ==
  [i \in 1..Len(s) |-> IF s[i] \in DOMAIN LowerCase THEN LowerCase[s[i]] ELSE s[i]]

\* a < b on strings: at the first position where they differ a has the
\* smaller code unit, or a is a proper prefix of b.
StrLess(a, b) ==
  \E i \in 1..Len(b) :
    /\ i <= Len(a) + 1
    /\ \A j \in 1..(i - 1) : a[j] = b[j]
    /\ \/ i = Len(a) + 1
       \/ CodeUnit[a[i]] < CodeUnit[b[i]]

\* A sort that keeps items that compare equal in their order (Array.sort with
\* a comparator, _.sortBy).  before holds the pairs <<i, j>> of positions
\* whose items the comparison orders the i-th before the j-th.
StableSort(items, before) ==
  LET n == Len(items)
      Rank(i) == 1 + Cardinality({ j \in 1..n :
                       \/ <<j, i>> \in before
                       \/ <<i, j>> \notin before /\ j < i })
  IN  [p \in 1..n |-> items[CHOOSE i \in 1..n : Rank(i) = p]]

\* config.datasources as an object: the own properties of the store
ConfigDatasources ==
  [key \in { listing.datasources[i].key : i \in 1..Len(listing.datasources) } |->
     listing.datasources[CHOOSE i \in 1..Len(listing.datasources) :
                           listing.datasources[i].key = key].value]

\* Object.keys(config.datasources): the own keys in insertion order
ObjectKeys == [i \in 1..Len(listing.datasources) |-> listing.datasources[i].key]

\* getAll(), lines 93-96
GetAll == [i \in 1..Len(ObjectKeys) |-> ConfigDatasources[ObjectKeys[i]]]

\* The filter of line 99
IsExternal(ds) == ~ds.meta.builtIn

\* The order of _.sortBy(datasources, ['name'])
NameBefore(a, b) == StrLess(a.name, b.name)

\* A getExternal that returns the resources in the order of the store.
GetExternalUnsorted == SelectSeq(GetAll, IsExternal)

\* getExternal(), lines 98-101
GetExternal ==
  LET external == SelectSeq(GetAll, IsExternal)
      positions == 1..Len(external)
  IN  StableSort(external, { pair \in positions \X positions :
                              NameBefore(external[pair[1]], external[pair[2]]) })

\* ds.meta, for ds a value of config.datasources or a member inherited from
\* Object.prototype (which has no meta)
MetaOf(ds) == IF ds.kind = "config" THEN ds.meta ELSE Undefined

\* An entry of the lists getMetricSources and addDataSourceVariables build
SelectItem(name, value, meta, sort) ==
  [name |-> name, value |-> value, meta |-> meta, sort |-> sort]

\* null
Null == [kind |-> "null"]

\* A string held where null may be held too (the value of an entry)
StringValue(s) == [kind |-> "string", text |-> s]

\* The loop of addDataSourceVariables from variable i on, lines 159-181.
\* variable.current.value is a string or an array of strings (isArray);
\* current holds the string as its one element, or the array's elements.
\* Only the string 'default' passes the test of line 165; as a property key
\* an array reads as its elements joined by commas.
RECURSIVE AddDataSourceVariablesFrom(_, _)
AddDataSourceVariablesFrom(list, i) ==
  IF i > Len(listing.variables) THEN list
  ELSE
    LET variable == listing.variables[i]
        isDefault == ~variable.isArray /\ variable.current = << DefaultLiteral >>
        first == IF isDefault THEN defaultDatasource ELSE JoinComma(variable.current)
        ds == Lookup(ConfigDatasources, first)
        key == <<"$", variable.name>>
    IN  IF variable.type # "datasource"
          THEN AddDataSourceVariablesFrom(list, i + 1)
        ELSE IF Truthy(ds)
          THEN AddDataSourceVariablesFrom(
                 Append(list, SelectItem(key, StringValue(key), MetaOf(ds), key)), i + 1)
        ELSE AddDataSourceVariablesFrom(list, i + 1)

\* addDataSourceVariables(list), lines 157-182
AddDataSourceVariables(list) == AddDataSourceVariablesFrom(list, 1)

\* The test of line 108
HasAnnotations(value) == value.meta.annotations

\* getAnnotationSources(), lines 103-115
GetAnnotationSources ==
  AddDataSourceVariables(<<>>) \o SelectSeq(GetAll, HasAnnotations)

\* The loop of getMetricSources from the i-th resource on, lines 120-138
RECURSIVE MetricSourcesFrom(_)
MetricSourcesFrom(i) ==
  IF i > Len(ObjectKeys) THEN <<>>
  ELSE
    LET key == ObjectKeys[i]
        value == ConfigDatasources[key]
        sort == IF value.meta.id = "grafana" THEN FromCharCode(253)
                ELSE IF value.meta.id = "mixed" THEN FromCharCode(254)
                ELSE key
        pushed == << SelectItem(key, StringValue(key), value.meta, sort) >> \o
                  (IF key = defaultDatasource
                     THEN << SelectItem(DefaultLiteral, Null, value.meta, key) >>
                     ELSE <<>>)
    IN  (IF value.meta.metrics THEN pushed ELSE <<>>) \o MetricSourcesFrom(i + 1)

\* The comparator of lines 144-152
SortBefore(a, b) == StrLess(ToLowerCase(a.sort), ToLowerCase(b.sort))

\* getMetricSources(options), lines 117-155
GetMetricSources(options) ==
  LET metricSources == MetricSourcesFrom(1)
      withVariables == IF ~options.defined \/ ~options.skipVariables
                         THEN AddDataSourceVariables(metricSources)
                         ELSE metricSources
      positions == 1..Len(withVariables)
  IN  StableSort(withVariables,
                 { pair \in positions \X positions :
                     SortBefore(withVariables[pair[1]], withVariables[pair[2]]) })

\* A caller makes a list query.
GetAllCall ==
  /\ listing' = [listing EXCEPT !.op = "getAll", !.options = NoOptions,
                                !.result = GetAll]
  /\ UNCHANGED <<defaultDatasource, datasources, calls, imports, instantiations, alerts,
               reinitialized>>

GetExternalCall ==
  /\ listing' = [listing EXCEPT !.op = "getExternal", !.options = NoOptions,
                                !.result = GetExternal]
  /\ UNCHANGED <<defaultDatasource, datasources, calls, imports, instantiations, alerts,
               reinitialized>>

GetAnnotationSourcesCall ==
  /\ listing' = [listing EXCEPT !.op = "getAnnotationSources", !.options = NoOptions,
                                !.result = GetAnnotationSources]
  /\ UNCHANGED <<defaultDatasource, datasources, calls, imports, instantiations, alerts,
               reinitialized>>

GetMetricSourcesCall(options) ==
  /\ listing' = [listing EXCEPT !.op = "getMetricSources", !.options = options,
                                !.result = GetMetricSources(options)]
  /\ UNCHANGED <<defaultDatasource, datasources, calls, imports, instantiations, alerts,
               reinitialized>>

\* A property of config.datasources
Resource(key, meta) == [key |-> key, value |-> DsConfig(key, meta)]

\* The resources the stores explored are made of: three plugins' resources
\* whose names differ in case, the built-in grafana and mixed resources, and
\* a resource whose name starts with a character above U+00FE.
Resources ==
  { Resource(Str("A"), Meta("a", FALSE, TRUE, TRUE)),
    Resource(Str("b"), Meta("b", FALSE, FALSE, TRUE)),
    Resource(Str("C"), Meta("c", FALSE, TRUE, FALSE)),
    Resource(<<"-", "G">>, Meta("grafana", TRUE, TRUE, TRUE)),
    Resource(<<"-", "M">>, Meta("mixed", TRUE, FALSE, TRUE)),
    Resource(Str("U+00FF"), Meta("y", FALSE, FALSE, TRUE)) }

\* config.datasources: up to MaxStore resources with different names, in
\* any insertion order
Stores ==
  { store \in UNION { [1..n -> Resources] : n \in 0..MaxStore } :
      \A i, j \in 1..Len(store) : i # j => store[i].key # store[j].key }

\* A variable as addDataSourceVariables reads it: name, type and
\* current.value
Variable(name, type, isArray, current) ==
  [name |-> name, type |-> type, isArray |-> isArray, current |-> current]

\* templateSrv.variables: none; variables that select a resource, another
\* type's variable and 'default'; variables that select the grafana
\* resource, a name without settings and two resources; a variable that
\* selects the name of a member of Object.prototype; variables whose value
\* is the array ['default'] and the array ['A'].
VariableLists ==
  { <<>>,
    << Variable("v", "datasource", FALSE, << Str("A") >>),
       Variable("q", "query", FALSE, << Str("b") >>),
       Variable("d", "datasource", FALSE, << DefaultLiteral >>) >>,
    << Variable("g", "datasource", FALSE, << <<"-", "G">> >>),
       Variable("u", "datasource", FALSE, << Str("Z") >>),
       Variable("m", "datasource", TRUE, << Str("A"), Str("b") >>) >>,
    << Variable("p", "datasource", FALSE, << Str("constructor") >>),
       Variable("a", "datasource", FALSE, << Str("C") >>) >>,
    << Variable("d", "datasource", TRUE, << DefaultLiteral >>),
       Variable("a", "datasource", TRUE, << Str("A") >>) >> }

\* config.defaultDatasource in the list queries
ListDefaults == { Str("A"), Str("b"), <<"-", "G">>, <<"-", "M">>, Str("Z") }

MetricOptions == { NoOptions, Options(FALSE), Options(TRUE) }

ListInit ==
  /\ defaultDatasource \in ListDefaults
  /\ datasources = <<>>
  /\ calls = <<>>
  /\ imports = <<>>
  /\ instantiations = <<>>
  /\ alerts = <<>>
  /\ reinitialized = FALSE
  /\ listing \in { Listing(store, variables, "none", NoOptions, <<>>) :
                     store \in Stores, variables \in VariableLists }

ListNext ==
  \/ GetAllCall
  \/ GetExternalCall
  \/ GetAnnotationSourcesCall
  \/ \E options \in MetricOptions : GetMetricSourcesCall(options)

ListSpec == ListInit /\ [][ListNext]_vars

\* ------------------------------------------------------------------- claims

CallIds == 1..Len(calls)

\* The call issued by this step, if the step issues one.
Issues == Len(calls') = Len(calls) + 1

Issued == calls'[Len(calls')]

\* TRUE iff the string part occurs in the string s
Contains(s, part) ==
  \E i \in 1..(Len(s) - Len(part) + 1) : SubSeq(s, i, i + Len(part) - 1) = part

\* TRUE iff get resolved the arguments of call c to a name (did not throw
\* while resolving).
HasResolvedName(c) == ResolveName(c.raw, c.scopedVars, 1).kind = "name"

\* The loader invocations made for the resource name n.
ImportsOf(n) == { k \in 1..Len(imports) : imports[k].name = n }

\* The instantiations made for the resource name n.
InstantiationsOf(n) == { k \in 1..Len(instantiations) : instantiations[k].name = n }

\* Every instance a call was resolved with is the one the cache holds under
\* the instance's name.
OneInstancePerName ==
  \A i \in CallIds :
    (calls[i].state = "resolved" /\ calls[i].value.kind = "instance")
      => /\ calls[i].name \in DOMAIN datasources
         /\ datasources[calls[i].name] = calls[i].value

\* Every cache entry is kept as it is.
CacheOnlyGrows ==
  \A k \in DOMAIN datasources :
    k \in DOMAIN datasources' /\ datasources'[k] = datasources[k]

\* C1: under every interleaving of get calls, loadDatasource calls and loader
\* completions after construction (the behaviours in which init() is not
\* called again), all instances handed out for a name are the one instance
\* the cache holds for it, and a cache entry, once written, is never replaced
\* by another instance and never removed.
C1_CacheAppendOnly ==
  /\ [](~reinitialized => OneInstancePerName)
  /\ [][~reinitialized' => CacheOnlyGrows]_vars

\* C1 witness: a loadDatasource call for a name completed after another call
\* had cached that name, and both hold the same instance.
C1_Witness ==
  \E i, j \in CallIds :
    /\ ~reinitialized
    /\ i # j
    /\ calls[i].name = calls[j].name
    /\ calls[j].op = "loadDatasource"
    /\ calls[i].phase = "done" /\ calls[j].phase = "done"
    /\ \E k \in 1..Len(instantiations) : instantiations[k].call = i
    /\ calls[j].value = calls[i].value

\* Every call so far was a get issued after all earlier calls had settled.
SequentialGets == \A i \in CallIds : calls[i].op = "get" /\ calls[i].sequential

\* Under sequential access, a configured name is loaded at most once and
\* every get after its successful load resolves with the loaded instance.
LoadedOnce ==
  SequentialGets =>
    \A n \in DOMAIN Datasources :
      /\ Cardinality(ImportsOf(n)) <= 1
      /\ \A i, j \in CallIds :
           (i < j /\ calls[i].name = n /\ calls[j].name = n /\ calls[i].phase = "done")
             => /\ calls[j].state = "resolved"
                /\ calls[j].value = calls[i].value
                /\ calls[j].value.kind = "instance"
                /\ calls[j].phase = "none"

\* A get issued for a name the cache holds invokes no loader and resolves
\* with the instance the cache holds.
CachedGetLoadsNothing ==
  (Issues /\ Issued.op = "get" /\ Issued.name \in DOMAIN datasources)
    => /\ imports' = imports
       /\ Issued.state = "resolved"
       /\ Issued.value = datasources[Issued.name]

\* C2: for every configured name, under sequential access (a sequence of
\* gets, each issued after the previous one has settled, on the constructed
\* service) every get after the first successful load resolves with the
\* identical instance and the loader is invoked at most once for the name;
\* in every behaviour, a get issued when the name is cached invokes no loader
\* and resolves with the cached instance.
C2_SequentialLoadsOnce ==
  /\ [](~reinitialized => LoadedOnce)
  /\ [][CachedGetLoadsNothing]_vars

\* C2 witness: two sequential gets of a configured name, the first loaded it,
\* the second resolved with the same instance, one loader invocation.
C2_Witness ==
  /\ ~reinitialized
  /\ Len(calls) = 2
  /\ SequentialGets
  /\ calls[1].name = calls[2].name
  /\ calls[1].name \in DOMAIN Datasources
  /\ calls[1].phase = "done"
  /\ calls[2].state = "resolved"
  /\ calls[2].value = calls[1].value
  /\ Len(imports) = 1

\* C3: every get whose resolved name has no entry in the config store is
\* rejected with NotFound, the message contains the resolved name, and no
\* loader is invoked.
C3_UnknownNameNotFound ==
  \A i \in CallIds :
    (/\ calls[i].op = "get"
     /\ HasResolvedName(calls[i])
     /\ calls[i].name \notin DOMAIN Datasources)
      => /\ calls[i].state = "rejected"
         /\ calls[i].value.kind = "notFound"
         /\ Contains(calls[i].value.message, calls[i].name)
         /\ calls[i].phase = "none"

\* The step ends call i in a failure: NotFound, a loader failure, a module
\* without the Datasource constructor, or a constructor that throws.
FailsIn(i) ==
  \/ /\ i > Len(calls)
     /\ calls'[i].state = "rejected"
  \/ /\ i <= Len(calls)
     /\ calls[i].phase = "loading"
     /\ \/ calls'[i].phase = "failed"
        \/ /\ calls'[i].plugin.kind \in {"noDatasource", "constructorThrows"}
           /\ calls[i].name \notin DOMAIN datasources
  \/ /\ i <= Len(calls)
     /\ calls[i].phase = "failed"
     /\ calls'[i].phase = "alerted"

\* A step that ends a call in a failure leaves the cache as it was.
FailureKeepsCache ==
  (\E i \in 1..Len(calls') : FailsIn(i)) => datasources' = datasources

\* A call that ended in one of these failures returned a promise: it threw
\* nothing at its caller.
FailureNotThrown ==
  \A i \in CallIds :
    (\/ calls[i].phase \in {"failed", "alerted"}
     \/ /\ HasResolvedName(calls[i])
        /\ ~Truthy(Lookup(Datasources, calls[i].name))
     \/ calls[i].plugin.kind \in {"noDatasource", "constructorThrows"})
      => calls[i].state \in Promises

\* C4: a load that ends in NotFound, in a loader failure, in a module without
\* the Datasource constructor or in an exception of the constructor leaves
\* the cache exactly as it was, and throws nothing at the caller.
C4_FailureLeavesCache == []FailureNotThrown /\ [][FailureKeepsCache]_vars

\* C4 witness: with an instance in the cache, a load of a module without the
\* Datasource constructor has run to its end.
C4_Witness ==
  /\ datasources # <<>>
  /\ \E i \in CallIds :
       /\ calls[i].phase = "alerted"
       /\ calls[i].error = MissingConstructorError

\* A get for a configured, uncached name whose load failed before invokes
\* the loader again.
RetryLoads ==
  (/\ Issues
   /\ Issued.op = "get"
   /\ Issued.afterFailure
   /\ Issued.name \in DOMAIN Datasources
   /\ Issued.name \notin DOMAIN datasources)
    => /\ Issued.phase = "loading"
       /\ Len(imports') = Len(imports) + 1
       /\ imports'[Len(imports')].name = Issued.name
       /\ imports'[Len(imports')].call = Len(calls')

\* When the loader invocation of a retry delivers a valid module, the name
\* is cached and the retry is resolved with the cached instance, which is a
\* new one unless another load has cached the name meanwhile.
RetrySucceeds ==
  \A i \in CallIds :
    (/\ calls[i].op = "get" /\ calls[i].afterFailure
     /\ calls[i].phase = "loading"
     /\ calls'[i].phase = "done" /\ calls'[i].plugin.kind = "ok")
      => /\ calls[i].name \in DOMAIN datasources'
         /\ calls'[i].state = "resolved"
         /\ calls'[i].value = datasources'[calls[i].name]
         /\ calls'[i].value.kind = "instance"
         /\ calls[i].name \notin DOMAIN datasources
              => /\ Len(instantiations') = Len(instantiations) + 1
                 /\ calls'[i].value.id = Len(instantiations')

\* C5: a failed load is not remembered: while the name is not cached, the
\* next get of it invokes the loader again, and when that invocation succeeds
\* the name is cached and the get resolves with the instance.
C5_FailedLoadRetried == [][RetrySucceeds /\ RetryLoads]_vars

\* C5 witness: the first load of a name failed, a get issued after the
\* failure loaded the name and was resolved with the instance it built.
C5_Witness ==
  /\ Len(calls) = 2
  /\ calls[1].phase = "alerted"
  /\ calls[2].op = "get"
  /\ calls[2].afterFailure
  /\ calls[2].name = calls[1].name
  /\ calls[2].state = "resolved"
  /\ Len(imports) = 2
  /\ instantiations = << [name |-> calls[2].name, call |-> 2] >>
  /\ datasources[calls[2].name] = calls[2].value

\* The events emitted for call i.
AlertsOf(i) == { k \in 1..Len(alerts) : alerts[k].call = i }

\* A get whose loader invocation failed stays pending, and its failure is
\* reported by at most one alert-error event, which carries the config's name
\* and the error text; once the catch-callback has run there is one.
LoaderFailurePending ==
  \A i \in CallIds :
    (calls[i].op = "get" /\ calls[i].error = LoaderError)
      => /\ calls[i].state = "pending"
         /\ Cardinality(AlertsOf(i)) = IF calls[i].phase = "alerted" THEN 1 ELSE 0
         /\ \A k \in AlertsOf(i) :
              /\ alerts[k].type = "alert-error"
              /\ alerts[k].title = Datasources[calls[i].name].name \o <<" plugin failed">>
              /\ alerts[k].body = LoaderError

\* Every failed chain reaches its catch-callback.
FailureAlerted ==
  \A i \in 1..MaxCalls :
    (i \in CallIds /\ calls[i].phase = "failed")
      ~> (i \in CallIds /\ calls[i].phase = "alerted")

\* C6: when the loader fails for a load started by get, the caller's promise
\* is neither rejected nor resolved in any later state, and exactly one
\* alert-error event with the config's name and the error text is emitted.
C6_LoaderFailureOnlyAlerts == []LoaderFailurePending /\ FailureAlerted

\* C6 witness: a get whose loader failed is still pending after its one
\* alert was emitted.
C6_Witness ==
  \E i \in CallIds :
    /\ calls[i].op = "get"
    /\ calls[i].error = LoaderError
    /\ calls[i].phase = "alerted"
    /\ calls[i].state = "pending"
    /\ Cardinality(AlertsOf(i)) = 1

\* The calls for the name n whose promise chain has run.
Completed(n) ==
  { i \in CallIds : calls[i].name = n /\ calls[i].phase \in {"done", "failed", "alerted"} }

\* The call whose then-callback instantiated the name n.
Instantiator(n) == instantiations[CHOOSE k \in InstantiationsOf(n) : TRUE].call

\* The loads of the name n all succeeded with a valid module: the
\* constructor was instantiated once for n, the cache holds that instance,
\* and every caller is resolved with it.
OneInstanceForAll(n) ==
  (/\ Completed(n) # {}
   /\ \A i \in Completed(n) : calls[i].plugin.kind = "ok")
    => /\ Cardinality(InstantiationsOf(n)) = 1
       /\ n \in DOMAIN datasources
       /\ datasources[n].id = CHOOSE k \in InstantiationsOf(n) : TRUE
       /\ datasources[n].pluginExports = calls[Instantiator(n)].plugin
       /\ \A i \in Completed(n) :
            /\ calls[i].state = "resolved"
            /\ calls[i].value = datasources[n]

\* A completion with a valid module for a configured name: when the cache
\* holds the name it discards its module (nothing is instantiated, the
\* cache is left alone) and resolves its caller with the cached instance;
\* otherwise it instantiates once, caches the instance and resolves its
\* caller with it.
CompletionUsesCache ==
  \A i \in CallIds :
    (/\ calls[i].phase = "loading"
     /\ calls'[i].phase = "done"
     /\ calls'[i].plugin.kind = "ok"
     /\ calls[i].name \in DOMAIN Datasources)
      => /\ calls'[i].state = "resolved"
         /\ IF calls[i].name \in DOMAIN datasources
              THEN /\ instantiations' = instantiations
                   /\ datasources' = datasources
                   /\ calls'[i].value = datasources[calls[i].name]
              ELSE /\ instantiations' =
                        Append(instantiations, [name |-> calls[i].name, call |-> i])
                   /\ calls'[i].value = datasources'[calls[i].name]
                   /\ calls'[i].value.id = Len(instantiations')

\* C7: when get calls for one uncached name are in flight together on the
\* constructed service and their loader invocations all succeed with a valid
\* module, in any order of completion the constructor is instantiated once
\* for the name and every caller is resolved with the one cached instance;
\* in every behaviour, a completion that finds the name cached discards its
\* module and resolves with the cached instance.
C7_ConcurrentLoadsOneInstance ==
  /\ [](~reinitialized => \A n \in DOMAIN Datasources : OneInstanceForAll(n))
  /\ [][CompletionUsesCache]_vars

\* C7 witness: two gets of one uncached name were in flight together, the
\* one issued last completed first and built the instance, and both callers
\* hold it.
C7_Witness ==
  /\ ~reinitialized
  /\ Len(calls) = 2
  /\ calls[1].op = "get" /\ calls[2].op = "get"
  /\ calls[1].name = calls[2].name
  /\ calls[1].plugin.kind = "ok" /\ calls[2].plugin.kind = "ok"
  /\ calls[1].plugin # calls[2].plugin
  /\ instantiations = << [name |-> calls[1].name, call |-> 2] >>
  /\ calls[1].state = "resolved"
  /\ calls[1].value = calls[2].value

\* A get for a configured name the cache does not hold invokes the loader
\* with the module of the name's config.
UncachedGetLoads ==
  (/\ Issues
   /\ Issued.op = "get"
   /\ Issued.name \in DOMAIN Datasources
   /\ Issued.name \notin DOMAIN datasources)
    => imports' = Append(imports, [module |-> Datasources[Issued.name].meta.module,
                                   name |-> Issued.name,
                                   call |-> Len(calls')])

\* The calls that invoked the loader for the name n.
LoadsOf(n) == { i \in CallIds : calls[i].name = n /\ calls[i].phase # "none" }

\* There are as many loader invocations for a name as calls that missed the
\* cache for it.
OneImportPerLoad ==
  \A n \in DOMAIN Datasources :
    /\ Cardinality(ImportsOf(n)) = Cardinality(LoadsOf(n))
    /\ \A i \in LoadsOf(n) : \E k \in ImportsOf(n) : imports[k].call = i

\* C8: there is no in-flight de-duplication: every get for a configured name
\* that is not cached invokes the loader once, also while an earlier load of
\* the name is in flight, so k concurrent gets make k invocations.
C8_NoInFlightDeduplication == []OneImportPerLoad /\ [][UncachedGetLoads]_vars

\* C8 witness: two gets of one uncached name are in flight, with two loader
\* invocations.
C8_Witness ==
  /\ Len(calls) = 2
  /\ calls[1].op = "get" /\ calls[2].op = "get"
  /\ calls[1].name = calls[2].name
  /\ calls[1].phase = "loading" /\ calls[2].phase = "loading"
  /\ Len(imports) = 2
  /\ imports[1].module = imports[2].module

\* C9: a load whose module lacks the Datasource constructor creates and
\* caches no instance, and the caller's request fails: once the chain has
\* run, the promise is rejected.
C9_MalformedPluginRejected ==
  \A i \in CallIds :
    calls[i].error = MissingConstructorError
      => /\ \A k \in 1..Len(instantiations) : instantiations[k].call # i
         /\ \A n \in DOMAIN datasources : datasources[n].pluginExports.load # i
         /\ calls[i].phase = "alerted" => calls[i].state = "rejected"

\* What the caller and the loader see of a call of get.
Outcome(result) ==
  [name |-> result.call.name, state |-> result.call.state,
   value |-> result.call.value, phase |-> result.call.phase,
   error |-> result.call.error, imports |-> result.imports]

\* Calls of get with an unset name, with 'default', and with names that
\* variable substitution or scopedVars turn into 'default'.
DefaultAliases ==
  { <<Unset, NoScopedVars>>,
    <<DefaultLiteral, NoScopedVars>>,
    << <<"$", "d">>, NoScopedVars >>,
    << <<"$", "{", "d", "}">>, NoScopedVars >>,
    << <<"$", "v">>, ScopedVarsOf("v", DefaultLiteral) >> }

\* C10: in every state, get with an unset name, with 'default' and with a
\* name that resolves to 'default' does what get(config.defaultDatasource)
\* does: the same result for the caller, the same loader invocation, the
\* same name to be cached.
C10_DefaultAliases ==
  \A alias \in DefaultAliases :
    Outcome(GetResult(alias[1], alias[2])) = Outcome(GetResult(defaultDatasource, NoScopedVars))

\* C10 witness: a get with an unset name loaded the default resource and a
\* get of 'default' was then resolved with that instance from the cache.
C10_Witness ==
  /\ Len(calls) = 2
  /\ calls[1].raw = Unset
  /\ calls[2].raw = DefaultLiteral
  /\ calls[1].name = defaultDatasource
  /\ calls[2].name = defaultDatasource
  /\ calls[1].phase = "done"
  /\ calls[2].phase = "none"
  /\ calls[2].state = "resolved"
  /\ calls[2].value = calls[1].value
  /\ calls[2].value.kind = "instance"

\* References to the variable v, whose current value is the one name A.
ReferencesToV == { <<"$", "v">>, <<"$", "{", "v", "}">> }

\* In every state get('$v') and get('${v}') do what get('A') does: the same
\* cache key, the same result for the caller, the same loader invocation.
SameAsGetA ==
  \A raw \in ReferencesToV :
    Outcome(GetResult(raw, NoScopedVars)) = Outcome(GetResult(Str("A"), NoScopedVars))

\* A get('$v') or get('A') issued while the cache holds A is resolved with
\* the cached instance and invokes no loader.
CachedForBoth ==
  (/\ Issues
   /\ Issued.op = "get"
   /\ \/ Issued.raw = <<"$", "v">> /\ ~Issued.scopedVars.defined
      \/ Issued.raw = Str("A")
   /\ Str("A") \in DOMAIN datasources)
    => /\ Issued.name = Str("A")
       /\ Issued.state = "resolved"
       /\ Issued.value = datasources[Str("A")]
       /\ imports' = imports

\* C11: with v a declared datasource variable whose value is A, get('$v')
\* uses the same cache key and has the same result as get('A'): once either
\* has cached A, the other is resolved with that cached instance and loads
\* nothing.
C11_VariableReference == []SameAsGetA /\ [][CachedForBoth]_vars

\* C11 witness: get('$v') loaded A, and get('A') was then resolved with the
\* same instance without a loader invocation.
C11_Witness ==
  /\ Len(calls) = 2
  /\ calls[1].raw = <<"$", "v">> /\ ~calls[1].scopedVars.defined
  /\ calls[2].raw = Str("A") /\ calls[2].op = "get"
  /\ calls[1].phase = "done"
  /\ calls[2].phase = "none"
  /\ calls[2].state = "resolved"
  /\ calls[2].value = calls[1].value
  /\ calls[1].value.kind = "instance"
  /\ Len(imports) = 1

\* A reference to the variable m, whose rendering is the list {A,B}.
ReferenceToM == <<"$", "m">>

\* A get of a list reference without scopedVars looks up the first element
\* only, and whatever it loads is the first element.
FirstElementOnly ==
  \A i \in CallIds :
    (calls[i].raw = ReferenceToM /\ ~calls[i].scopedVars.defined)
      => /\ calls[i].name = Str("A")
         /\ \A k \in 1..Len(imports) : imports[k].call = i => imports[k].name = Str("A")
         /\ \A k \in 1..Len(instantiations) :
              instantiations[k].call = i => instantiations[k].name = Str("A")

\* The get of a list reference starts at most the load of the first element
\* and changes nothing for the other elements.
ListGetLoadsFirst ==
  (Issues /\ Issued.raw = ReferenceToM)
    => /\ Issued.name = Str("A")
       /\ \/ imports' = imports
          \/ imports' = Append(imports, [module |-> Datasources[Str("A")].meta.module,
                                         name |-> Str("A"), call |-> Len(calls')])
       /\ datasources' = datasources

\* C12: when a variable reference substitutes to a list {A,B,...} and no
\* scoped override applies, get resolves to the first element: only A is
\* looked up, loaded and cached, and no load is started for B or the rest.
C12_FirstElementOfList ==
  /\ []FirstElementOnly
  /\ [][ListGetLoadsFirst]_vars
  /\ [](FirstOfList(<<"{", "A", ",", "B", ",", "Z", "}">>) = Str("A"))

\* C12 witness: get('$m') has loaded and cached A, and B is neither loaded
\* nor cached.
C12_Witness ==
  \E i \in CallIds :
    /\ calls[i].raw = ReferenceToM
    /\ calls[i].state = "resolved"
    /\ calls[i].phase = "done"
    /\ DOMAIN datasources = { Str("A") }
    /\ \A k \in 1..Len(imports) : imports[k].name = Str("A")

\* TRUE iff the call's name is a reference $x that templateSrv.replace
\* substitutes.
ReferencesVariable(c) ==
  /\ Len(c.raw) = 2
  /\ c.raw[1] = "$"
  /\ Replace(c.raw) # c.raw

\* The name the scoped-override rule gives for such a call: the scoped
\* binding's value when scopedVars binds x and x is a declared datasource
\* variable, else the first element of the globally substituted value.
ScopedRuleName(c) ==
  LET x == Str(c.raw[2])
  IN  IF /\ c.scopedVars.defined
         /\ x \in DOMAIN c.scopedVars.vars
         /\ ActiveDatasourceVariable(x)
        THEN c.scopedVars.vars[x].value
        ELSE FirstOfList(Replace(c.raw))

\* C13: for get(name, scopedVars) with name a reference to the variable x,
\* the scoped binding's value is the resolved name exactly when scopedVars
\* binds x and x is declared with type datasource; in every other case,
\* scopedVars without a binding for x included, the globally substituted
\* value with the first-element rule is, and nothing is thrown.
C13_ScopedOverride ==
  \A i \in CallIds :
    (calls[i].op = "get" /\ ReferencesVariable(calls[i]))
      => /\ calls[i].error # "TypeError"
         /\ calls[i].name = ResolveName(ScopedRuleName(calls[i]), NoScopedVars, 1).name

\* C19: every cache entry under key k holds an instance whose name is k,
\* whose meta is the meta of the config store's entry for k, and whose
\* pluginExports is the module the loader invocation that created it
\* delivered; k is a key of the config store.
C19_CacheEntryStamped ==
  \A k \in DOMAIN datasources :
    LET instance == datasources[k]
    IN  /\ instance.kind = "instance"
        /\ instance.name = k
        /\ k \in DOMAIN Datasources
        /\ instance.meta = Datasources[k].meta
        /\ instance.id \in 1..Len(instantiations)
        /\ instantiations[instance.id].name = k
        /\ LET creator == instantiations[instance.id].call
           IN  /\ calls[creator].name = k
               /\ instance.pluginExports = calls[creator].plugin
               /\ instance.pluginExports.load = creator
               /\ \E j \in 1..Len(imports) :
                    /\ imports[j].call = creator
                    /\ imports[j].module = Datasources[k].meta.module
                    /\ imports[j].module = instance.pluginExports.module

\* C19 witness: the cache holds instances for two names, created by two
\* calls.
C19_Witness ==
  /\ DOMAIN datasources = { Str("A"), Str("B") }
  /\ datasources[Str("A")].pluginExports.load # datasources[Str("B")].pluginExports.load

\* A pending promise is settled only by the then-callback of its own loader
\* invocation, and only by resolving it; a failed chain stays failed.
SettledByOwnLoad ==
  \A i \in CallIds :
    /\ (calls[i].state = "pending" /\ calls'[i].state # "pending")
         => /\ calls'[i].state = "resolved"
            /\ calls[i].phase = "loading"
            /\ calls'[i].phase = "done"
            /\ calls'[i].plugin.load = i
    /\ calls[i].phase \in {"failed", "alerted"}
         => /\ calls'[i].phase \in {"failed", "alerted"}
            /\ calls'[i].state = "pending"

\* A call whose loader was invoked is never rejected, and one whose chain
\* failed is pending, whether or not its name has been cached since.
FailedStaysPending ==
  \A i \in CallIds :
    /\ calls[i].phase # "none" => calls[i].state # "rejected"
    /\ calls[i].phase \in {"failed", "alerted"} => calls[i].state = "pending"

\* C20: a pending request is settled only by the success of its own loader
\* invocation and is never rejected once the loader was invoked: when one of
\* two loads of a name fails and the other succeeds, the name is cached and
\* the succeeding caller resolved, while the other promise stays pending.
C20_OnlyOwnLoadSettles == []FailedStaysPending /\ [][SettledByOwnLoad]_vars

\* C20 witness: of two loads of one name, one failed in the loader and is
\* pending after its alert, the other succeeded and the name is cached.
C20_Witness ==
  \E i, j \in CallIds :
    /\ i # j
    /\ calls[i].name = calls[j].name
    /\ calls[i].error = LoaderError
    /\ calls[i].phase = "alerted"
    /\ calls[i].state = "pending"
    /\ calls[j].state = "resolved"
    /\ calls[j].phase = "done"
    /\ calls[j].name \in DOMAIN datasources
    /\ datasources[calls[j].name] = calls[j].value

\* The configured default is a name get can end at: it is not empty and
\* what it resolves to (the recursive call passes no scopedVars) is not
\* 'default'.
SaneDefault ==
  /\ defaultDatasource # Unset
  /\ FirstOfList(Replace(defaultDatasource)) # DefaultLiteral

\* TRUE iff get(raw, scopedVars) calls itself
Recurses(raw, scopedVars) ==
  \/ raw = Unset
  \/ /\ ResolveName(raw, scopedVars, 1).kind = "name"
     /\ ResolveName(raw, scopedVars, 1).name # (IF raw = Replace(raw) THEN raw
          ELSE IF scopedVars.defined /\ ActiveDatasourceVariable(StripDollar(raw))
            THEN scopedVars.vars[StripDollar(raw)].value
          ELSE FirstOfList(Replace(raw)))

\* C18: with a default that is neither empty nor resolves to 'default', get
\* calls itself at most once: a resolution that is given room for one more
\* frame only never runs out of stack, and a call that resolved to the
\* default ended at what the default resolves to.
C18_RecursesAtMostOnce ==
  SaneDefault =>
    \A i \in CallIds :
      /\ ResolveName(calls[i].raw, calls[i].scopedVars, StackLimit - 1).kind = "name"
      /\ calls[i].state # "threw"
      /\ Recurses(calls[i].raw, calls[i].scopedVars)
           => calls[i].name = FirstOfList(Replace(defaultDatasource))

\* C18 witness: a reference that resolves to 'default' was requested while
\* the default is itself a reference; the one recursive call ended at the
\* name the default resolves to.
C18_Witness ==
  /\ defaultDatasource = <<"$", "m">>
  /\ \E i \in CallIds :
       /\ calls[i].raw = <<"$", "d">>
       /\ calls[i].name = Str("A")
       /\ calls[i].state = "pending"

\* Positions of a list
Positions(list) == 1..Len(list)

\* C16: getExternal returns exactly the configured resources that are not
\* built in, each once, in ascending order of name (by code units, so an
\* upper-case letter comes before every lower-case one).
C16_ExternalSortedByName ==
  listing.op = "getExternal" =>
    LET result == listing.result
        store == listing.datasources
    IN  /\ \A p \in Positions(result) :
             /\ ~result[p].meta.builtIn
             /\ \E i \in Positions(store) : store[i].value = result[p]
        /\ \A i \in Positions(store) :
             ~store[i].value.meta.builtIn
               => Cardinality({ p \in Positions(result) : result[p] = store[i].value }) = 1
        /\ \A p, q \in Positions(result) :
             p < q => StrLess(result[p].name, result[q].name)

\* C16 witness: the store lists b, a built-in resource and C in this order;
\* getExternal returned C and b.
C16_Witness ==
  /\ listing.op = "getExternal"
  /\ Len(listing.datasources) = 3
  /\ listing.datasources[1].key = Str("b")
  /\ listing.datasources[2].value.meta.builtIn
  /\ listing.datasources[3].key = Str("C")
  /\ Len(listing.result) = 2
  /\ listing.result[1].name = Str("C")
  /\ listing.result[2].name = Str("b")

\* meta.id of a list entry ("" for an entry without meta)
MetaId(entry) == IF entry.meta = Undefined THEN "" ELSE entry.meta.id

\* The entry of a resource itself, as opposed to the synthetic 'default'
\* entry and the '$name' entries, which borrow a resource's meta.
IsResourceEntry(entry) ==
  /\ entry.value = StringValue(entry.name)
  /\ entry.name \in DOMAIN ConfigDatasources

\* The entry of a resource of the plugin id
IsEntryOf(entry, id) == IsResourceEntry(entry) /\ MetaId(entry) = id

\* The entries the ordering treats as ordinary: resources of other plugins,
\* the synthetic 'default' entry and the '$name' entries.
IsOrdinaryEntry(entry) == ~IsEntryOf(entry, "grafana") /\ ~IsEntryOf(entry, "mixed")

\* C14: in the list getMetricSources returns, the entry of every 'mixed'
\* resource comes after the entry of every 'grafana' resource, and that one
\* after every other entry (ordinary resources, the synthetic 'default'
\* entry and the '$name' entries), whatever characters the names contain.
C14_GrafanaAndMixedLast ==
  listing.op = "getMetricSources" =>
    LET result == listing.result
    IN  \A p, q \in Positions(result) :
          /\ (IsEntryOf(result[p], "grafana") /\ IsEntryOf(result[q], "mixed")) => p < q
          /\ (IsOrdinaryEntry(result[p]) /\ IsEntryOf(result[q], "grafana")) => p < q
          /\ (IsOrdinaryEntry(result[p]) /\ IsEntryOf(result[q], "mixed")) => p < q

\* The entry getMetricSources pushes for the default resource
IsDefaultEntry(entry) ==
  /\ entry.name = DefaultLiteral
  /\ entry.value = Null

\* TRUE iff the configured default is a resource of the store with metrics
DefaultHasMetrics ==
  \E i \in Positions(listing.datasources) :
    /\ listing.datasources[i].key = defaultDatasource
    /\ listing.datasources[i].value.meta.metrics

\* C15: when the configured default resource has metrics, the list
\* getMetricSources returns holds exactly one entry named 'default' with
\* value null; it carries the default resource's meta and comes right after
\* the entry of the default resource, whatever plugin the resource is of.
C15_DefaultEntryFollowsResource ==
  (listing.op = "getMetricSources" /\ DefaultHasMetrics) =>
    LET result == listing.result
    IN  /\ Cardinality({ p \in Positions(result) : IsDefaultEntry(result[p]) }) = 1
        /\ \A p \in Positions(result) :
             IsDefaultEntry(result[p]) =>
               /\ result[p].meta = ConfigDatasources[defaultDatasource].meta
               /\ p > 1
               /\ result[p - 1].name = defaultDatasource
               /\ result[p - 1].value = StringValue(defaultDatasource)

\* The name a datasource variable selects, 'default' read as the configured
\* default name
SelectedName(variable) ==
  IF ~variable.isArray /\ variable.current = << DefaultLiteral >> THEN defaultDatasource
  ELSE JoinComma(variable.current)

\* TRUE iff the variable is of type datasource and selects a resource of the
\* config store
SelectsResource(variable) ==
  /\ variable.type = "datasource"
  /\ \E i \in Positions(listing.datasources) :
       listing.datasources[i].key = SelectedName(variable)

\* The resource with the name
ResourceNamed(name) ==
  listing.datasources[CHOOSE i \in Positions(listing.datasources) :
                        listing.datasources[i].key = name].value

\* The '$name' entries, in declaration order, of the variables from the i-th
\* on that select a resource
RECURSIVE VariableEntriesFrom(_)
VariableEntriesFrom(i) ==
  IF i > Len(listing.variables) THEN <<>>
  ELSE LET variable == listing.variables[i]
           key == <<"$", variable.name>>
       IN  (IF SelectsResource(variable)
              THEN << SelectItem(key, StringValue(key),
                                 ResourceNamed(SelectedName(variable)).meta, key) >>
              ELSE <<>>) \o VariableEntriesFrom(i + 1)

\* The resources with annotations, in the order of the store, from the i-th on
RECURSIVE AnnotatedFrom(_)
AnnotatedFrom(i) ==
  IF i > Len(listing.datasources) THEN <<>>
  ELSE (IF listing.datasources[i].value.meta.annotations
          THEN << listing.datasources[i].value >>
          ELSE <<>>) \o AnnotatedFrom(i + 1)

\* C17: getAnnotationSources returns, first and in declaration order, one
\* '$name' entry with the resource's meta for each datasource variable whose
\* value ('default' read as the configured default) is a resource of the
\* config store, and then exactly the resources with annotations; any other
\* variable contributes nothing.
C17_AnnotationSources ==
  listing.op = "getAnnotationSources" =>
    listing.result = VariableEntriesFrom(1) \o AnnotatedFrom(1)

====
